---------------------------- MODULE Spec2Model ----------------------------
(***************************************************************************)
(* A model of lud: the file-transfer server of src/src/server.rs (framed   *)
(* packets, one operation per connection, handlers for download, upload,   *)
(* list, remove and ping over a storage root), its path resolver safe_join *)
(* and the client download flow of src/src/commands.rs.                    *)
(*                                                                         *)
(* Strings that the code parses (paths) are sequences of one-character     *)
(* strings.  A filesystem path is a sequence of components, each component *)
(* a sequence of characters.                                               *)
(***************************************************************************)
EXTENDS Integers, Sequences, FiniteSets, TLC

(***************************************************************************)
(* Bounds of the model.                                                    *)
(***************************************************************************)
\* longest relative path string explored by the path-resolver specification
MaxRelLen == 5

(***************************************************************************)
(* Path resolver: camino::Utf8Path::components (Unix) and safe_join.       *)
(***************************************************************************)
Alphabet == {"a", ".", "/"}

None == [ok |-> FALSE, path |-> <<>>]

Some(p) == [ok |-> TRUE, path |-> p]

RootDir == [k |-> "RootDir", s |-> <<>>]

CurDir == [k |-> "CurDir", s |-> <<>>]

ParentDir == [k |-> "ParentDir", s |-> <<>>]

Normal(part) == [k |-> "Normal", s |-> part]

\* the pieces of s between its "/" separators (empty pieces included)
RECURSIVE SplitSlash(_)
SplitSlash(s) ==
    IF s = <<>> THEN << <<>> >>
    ELSE LET r == SplitSlash(Tail(s))
         IN  IF Head(s) = "/" THEN << <<>> >> \o r
             ELSE << <<Head(s)>> \o Head(r) >> \o Tail(r)

\* the components of the pieces from index i on: empty pieces (repeated or
\* trailing separators) and "." are normalised away, except a leading "."
RECURSIVE PieceComponents(_, _)
PieceComponents(pieces, i) ==
    IF i > Len(pieces) THEN <<>>
    ELSE LET p == pieces[i]
             rest == PieceComponents(pieces, i + 1)
         IN  IF p = <<>> THEN rest
             ELSE IF p = <<".">> THEN (IF i = 1 THEN <<CurDir>> \o rest ELSE rest)
             ELSE IF p = <<".", ".">> THEN <<ParentDir>> \o rest
             ELSE <<Normal(p)>> \o rest

\* Utf8Path::new(relative).components() on Unix: no Prefix component exists
Components(s) ==
    IF s # <<>> /\ Head(s) = "/"
    THEN <<RootDir>> \o PieceComponents(SplitSlash(s), 1)
    ELSE PieceComponents(SplitSlash(s), 1)

\* Utf8Path::starts_with: component-wise prefix
StartsWith(p, base) ==
    /\ Len(base) <= Len(p)
    /\ SubSeq(p, 1, Len(base)) = base

\* the loop of safe_join over the components from index i on; normalized is
\* the buffer built so far.  The result is None or Some(normalized buffer).
RECURSIVE Walk(_, _, _)
WalkNoPopCheck(comps, i, normalized) ==
    IF i > Len(comps) THEN Some(normalized)
    ELSE LET c == comps[i]
         IN  CASE c.k = "RootDir" -> None
               [] c.k = "CurDir" -> Walk(comps, i + 1, normalized)
               [] c.k = "ParentDir" ->
                    IF normalized = <<>> THEN Walk(comps, i + 1, normalized)
                    ELSE Walk(comps, i + 1, SubSeq(normalized, 1, Len(normalized) - 1))
               [] OTHER ->
                    IF c.s = <<>> THEN None
                    ELSE Walk(comps, i + 1, Append(normalized, c.s))

Walk(comps, i, normalized) ==
    IF i > Len(comps) THEN Some(normalized)
    ELSE LET c == comps[i]
         IN  CASE c.k = "RootDir" -> None
               [] c.k = "CurDir" -> Walk(comps, i + 1, normalized)
               [] c.k = "ParentDir" ->
                    IF normalized = <<>> THEN None
                    ELSE Walk(comps, i + 1, SubSeq(normalized, 1, Len(normalized) - 1))
               [] OTHER ->
                    IF c.s = <<>> THEN None
                    ELSE Walk(comps, i + 1, Append(normalized, c.s))

safe_join(base, relative) ==
    IF relative = <<>> \/ relative = <<".">> \/ relative = <<".", "/">>
    THEN Some(base)
    ELSE LET w == Walk(Components(relative), 1, <<>>)
         IN  IF ~w.ok THEN None
             ELSE LET joined == base \o w.path
                  IN  IF StartsWith(joined, base) THEN Some(joined) ELSE None


(***************************************************************************)
(* More bounds.                                                            *)
(***************************************************************************)
\* largest size a client announces in UploadStart
MaxSize == 2

\* cap on the bytes one upload body carries (received_bytes is a u64)
MaxRecv == 2

\* bytes per read of a download: 64 * 1024 in the code, scaled down
CHUNK_SIZE == 2

(***************************************************************************)
(* Packets (enum Packet) and the universe of requests.                     *)
(***************************************************************************)
Ok == [t |-> "Ok"]

Error(m) == [t |-> "Error", msg |-> m]

DownloadStart(p, sz, m) == [t |-> "DownloadStart", path |-> p, size |-> sz, mode |-> m]

DownloadChunk(d) == [t |-> "DownloadChunk", data |-> d]

DownloadEnd == [t |-> "DownloadEnd"]

UploadStart(p, sz, m, f) ==
    [t |-> "UploadStart", path |-> p, size |-> sz, mode |-> m, force |-> f]

UploadChunk(d) == [t |-> "UploadChunk", data |-> d]

UploadEnd == [t |-> "UploadEnd"]

List(p, es) == [t |-> "List", path |-> p, entries |-> es]

Remove(p, f, r) == [t |-> "Remove", path |-> p, force |-> f, recursive |-> r]

Ping == [t |-> "Ping"]

NoPacket == [t |-> "NoPacket"]

Conns == {1, 2}

\* the storage root (output_path) and the paths of the model's tree
A == <<"a">>

Root == << <<"s">> >>

AllPaths == {Root, Root \o <<A>>}

\* relative paths a peer names: a, . and ../a
ReqPaths == { <<"a">>, <<".">>, <<".", ".", "/", "a">> }

\* the mode a peer uploads with: a full st_mode 0100600, as the stat of the
\* client gives it
Modes == {33152}

UploadRequests ==
    { UploadStart(p, sz, m, f) : p \in ReqPaths, sz \in 0..MaxSize,
                                 m \in Modes, f \in BOOLEAN }

RemoveRequests == { Remove(p, f, r) : p \in ReqPaths, f \in BOOLEAN, r \in BOOLEAN }

\* the entries of a List packet are a set here: the order of a walk is the
\* operating system's
ListRequests == { List(p, {}) : p \in ReqPaths }

DownloadRequests == { DownloadStart(p, 0, 0) : p \in ReqPaths }

\* packets that are no request: the dispatcher's catch-all arm
OtherRequests == {UploadEnd}


(***************************************************************************)
(* The filesystem: a tree of nodes under the storage root, with inodes so  *)
(* that an open handle outlives an unlink and sees a truncation.           *)
(***************************************************************************)
Inodes == 1..(Cardinality(AllPaths) + Cardinality(Conns))

Absent == [k |-> "absent", ino |-> 0]

Dir == [k |-> "dir", ino |-> 0]

FileNode(i) == [k |-> "file", ino |-> i]

\* st_mode file-type bits and the permission mask of fchmod
S_IFREG == 32768

S_IFDIR == 16384

PermMask == 4096

\* mode of a file created by open(2) with 0666 under umask 022, and of a
\* directory created by mkdir(2) with 0777
DefaultFilePerm == 420

DefaultDirPerm == 493

DirSizes == {1}

\* handle of an opened directory (File::open succeeds on one; read fails)
DirHandle == 0 - 1

Parent(p) == SubSeq(p, 1, Len(p) - 1)

IsPrefix(p, q) == Len(p) <= Len(q) /\ SubSeq(q, 1, Len(p)) = p

\* the kind of the node at p; what lies above the storage root is a directory
KindOf(f, p) == IF p \in AllPaths THEN f[p].k
                ELSE IF IsPrefix(p, Root) THEN "dir" ELSE "absent"

Min(x, y) == IF x <= y THEN x ELSE y


(***************************************************************************)
(* State.                                                                  *)
(*   fs, idata, iperm   the tree under the storage root, and each inode's  *)
(*                      bytes and permission bits                          *)
(*   srv[c]             the server task of connection c: pc (the pending   *)
(*                      await), req (the request packet), full (full_path),*)
(*                      sent (the packets written so far), fh and fpos (the*)
(*                      open file and its offset), received_bytes, and the *)
(*                      observers wrote (bytes passed to write_all),       *)
(*                      fsused (a filesystem call was made), body (the     *)
(*                      bytes of the upload chunks read, in order), ended  *)
(*                      (UploadEnd was read) and deviated (the peer closed *)
(*                      or sent another packet inside an upload body), exit*)
(*                      (how the task left the dispatcher)                 *)
(*   pre[c], touched[c] observers: the target's state when the request was *)
(*                      read; whether another connection changed the target*)
(*                      or a node above or below it since                  *)
(*   cli[c]             the peer of connection c: pc, rd (packets of sent  *)
(*                      it has read), total_size, received_bytes, lfile    *)
(*                      and lstate (the bytes of the local file of a       *)
(*                      download, and whether it is absent, a file, or a   *)
(*                      file in a directory the client may not search),    *)
(*                      force (of a download, until                        *)
(*                      its check is made), err, out (the body packets an  *)
(*                      uploading client has written) and sent_bytes       *)
(*   sj_base, sj_rel,   inputs and result of the path-resolver             *)
(*   sj_res             specification                                      *)
(*   fr_wire, ...       one direction of one connection in the             *)
(*                      specification of the framing codec: the bytes in   *)
(*                      flight, the packets passed to write_packet, the    *)
(*                      results of read_packet, the frames written, and    *)
(*                      whether the writer has shut the socket down        *)
(***************************************************************************)
VARIABLES fs, idata, iperm, srv, pre, touched, cli, sj_base, sj_rel, sj_res,
          fr_wire, fr_written, fr_read, fr_frames, fr_closed

fsvars == <<fs, idata, iperm>>

sjvars == <<sj_base, sj_rel, sj_res>>

frvars == <<fr_wire, fr_written, fr_read, fr_frames, fr_closed>>

vars == <<fs, idata, iperm, srv, pre, touched, cli, sj_base, sj_rel, sj_res,
          fr_wire, fr_written, fr_read, fr_frames, fr_closed>>

InitSrv ==
    [pc |-> "AwaitRequest", req |-> NoPacket, full |-> <<>>, sent |-> <<>>,
     fh |-> 0, fpos |-> 0, received_bytes |-> 0, wrote |-> 0, fsused |-> FALSE,
     body |-> <<>>, ended |-> FALSE, deviated |-> FALSE, exit |-> "none"]

InitCli ==
    [pc |-> "idle", rd |-> 0, total_size |-> 0, received_bytes |-> 0,
     lfile |-> <<>>, lstate |-> "absent", force |-> FALSE, err |-> "",
     out |-> <<>>, sent_bytes |-> 0]

EmptyData == [i \in Inodes |-> <<>>]

EmptyPerm == [i \in Inodes |-> 0]

\* trees the storage root may hold when the server starts: empty, or a file
\* a of three bytes
InitTrees ==
    { [fs |-> [p \in AllPaths |-> IF p = Root THEN Dir ELSE Absent],
       idata |-> EmptyData, iperm |-> EmptyPerm],
      [fs |-> [p \in AllPaths |-> IF p = Root THEN Dir ELSE FileNode(1)],
       idata |-> [EmptyData EXCEPT ![1] = <<7, 8, 9>>],
       iperm |-> [EmptyPerm EXCEPT ![1] = DefaultFilePerm]] }

InitConns ==
    /\ srv = [c \in Conns |-> InitSrv]
    /\ pre = [c \in Conns |-> "none"]
    /\ touched = [c \in Conns |-> FALSE]
    /\ cli = [c \in Conns |-> InitCli]

\* a connection just made: nothing written, nothing read
InitFrame ==
    /\ fr_wire = <<>>
    /\ fr_written = <<>>
    /\ fr_read = <<>>
    /\ fr_frames = <<>>
    /\ fr_closed = FALSE

Init ==
    /\ \E t \in InitTrees : fs = t.fs /\ idata = t.idata /\ iperm = t.iperm
    /\ InitConns
    /\ InitFrame
    /\ sj_base = Root
    /\ sj_rel = <<>>
    /\ sj_res = Some(Root)

(***************************************************************************)
(* Filesystem helpers.                                                     *)
(***************************************************************************)
\* inodes a path or an open handle refers to
LiveInodes ==
    ({ fs[p].ino : p \in AllPaths } \cup { srv[c].fh : c \in Conns }) \cap Inodes

FreeInode == CHOOSE i \in Inodes \ LiveInodes : \A j \in Inodes \ LiveInodes : i <= j

\* the new inode table: d and m, with the inodes nothing refers to any more
\* (in the next state) released
StoreInodes(d, m) ==
    /\ idata' = [i \in Inodes |-> IF i \in LiveInodes' THEN d[i] ELSE <<>>]
    /\ iperm' = [i \in Inodes |-> IF i \in LiveInodes' THEN m[i] ELSE 0]

\* fs::try_exists
Exists(p) == KindOf(fs, p) # "absent"

\* nodes of the tree strictly below p
Below(p) == { q \in AllPaths : q # p /\ IsPrefix(p, q) }

\* nodes of the tree at or above p
AtOrAbove(p) == { q \in AllPaths : IsPrefix(q, p) }

\* create_dir_all(p) succeeds unless p or a node above it is a file
CanCreateDirAll(p) == \A q \in AtOrAbove(p) : fs[q].k # "file"

\* bytes of data d after writing chunk at offset pos (a hole reads as zeros)
RECURSIVE Zeros(_)
Zeros(n) == IF n <= 0 THEN <<>> ELSE <<0>> \o Zeros(n - 1)

WriteAt(d, pos, chunk) ==
    LET padded == IF Len(d) < pos THEN d \o Zeros(pos - Len(d)) ELSE d
    IN  SubSeq(padded, 1, pos) \o chunk
            \o SubSeq(padded, pos + Len(chunk) + 1, Len(padded))

\* two paths of which one is the other or lies above it
Related(p, q) == IsPrefix(p, q) \/ IsPrefix(q, p)

\* a connection between reading its request and its shutdown
Handling(c) == srv[c].pc \notin {"AwaitRequest", "Done"}

\* connection o changes the node at q: every other connection in a handler
\* whose target is related to q is touched
Touch(o, q) ==
    touched' = [c \in Conns |->
                  touched[c] \/ (c # o /\ Handling(c) /\ Related(srv[c].full, q))]

\* path of a tree node relative to the storage root, as a string:
\* Utf8Path::strip_prefix(output_path), components joined by "/"
RECURSIVE JoinSlash(_)
JoinSlash(comps) ==
    IF comps = <<>> THEN <<>>
    ELSE IF Len(comps) = 1 THEN comps[1]
    ELSE comps[1] \o <<"/">> \o JoinSlash(Tail(comps))

StripPrefix(p, base) == SubSeq(p, Len(base) + 1, Len(p))


(***************************************************************************)
(* The dispatcher, handle_connection.  An action is one await of the task  *)
(* together with the synchronous code that follows it up to the next       *)
(* filesystem or read await; a packet write is taken with the step before  *)
(* it (the transport buffers it, and no other task can observe the        *)
(* socket); so is the shutdown of the socket at the end of the task.       *)
(***************************************************************************)
send(s, p) == [s EXCEPT !.sent = Append(@, p)]

send_error(s, m) == send(s, Error(m))

send_ok(s) == send(s, Ok)

\* the socket left open at the end of the task
shutdown_skipped(s) == s

\* the end of the task: shutdown_connection
shutdown(s) == [s EXCEPT !.pc = "Done"]

\* the dispatcher's Ok sent after a handler that returned Err too
handler_err_answered(s) ==
    shutdown([send_ok(s) EXCEPT !.fh = 0, !.fpos = 0, !.exit = "handler_err"])

\* the handler returned Err: its file is dropped, the dispatcher only logs
handler_err(s) == shutdown([s EXCEPT !.fh = 0, !.fpos = 0, !.exit = "handler_err"])

\* the handler returned Ok: its file is dropped, the dispatcher sends Ok
handler_ok(s) ==
    shutdown([send_ok(s) EXCEPT !.fh = 0, !.fpos = 0, !.exit = "handler_ok"])

download_begin_unchecked(s, file_path) ==
    LET j == safe_join(Root, file_path)
    IN  [s EXCEPT !.full = IF j.ok THEN j.path ELSE Root, !.pc = "dl_stat"]

download_begin(s, file_path) ==
    LET j == safe_join(Root, file_path)
    IN  IF ~j.ok THEN handler_err(send_error(s, "Invalid file path"))
        ELSE [s EXCEPT !.full = j.path, !.pc = "dl_stat"]

upload_begin(s, file_path) ==
    LET j == safe_join(Root, file_path)
    IN  IF ~j.ok THEN handler_err(send_error(s, "Invalid file path"))
        ELSE [send_ok(s) EXCEPT !.full = j.path, !.pc = "ul_mkdir"]

remove_begin(s, path) ==
    LET j == safe_join(Root, path)
    IN  IF ~j.ok THEN handler_err(send_error(s, "Invalid path"))
        ELSE [s EXCEPT !.full = j.path, !.pc = "rm_exists"]

list_begin(s, path) ==
    LET j == safe_join(Root, path)
    IN  IF ~j.ok THEN handler_err(send_error(s, "Invalid path"))
        ELSE [s EXCEPT !.full = j.path, !.pc = "ls_walk"]

\* a Ping answered as a handler's request is, with an Ok of its own and the
\* dispatcher's
ping_reply_twice(s) == shutdown([send_ok(send_ok(s)) EXCEPT !.exit = "ping"])

\* the Ping arm of the match: send_ok, then the end of the task
ping_reply(s) == shutdown([send_ok(s) EXCEPT !.exit = "ping"])

\* the match of handle_connection on the first packet (the catch-all arm
\* names the packet's variant in its message, here always UploadEnd)
dispatch(s, packet) ==
    CASE packet.t = "DownloadStart" -> download_begin(s, packet.path)
      [] packet.t = "UploadStart" -> upload_begin(s, packet.path)
      [] packet.t = "List" -> list_begin(s, packet.path)
      [] packet.t = "Remove" -> remove_begin(s, packet.path)
      [] packet.t = "Ping" -> ping_reply(s)
      [] OTHER -> shutdown([send_error(s, "Unsupported packet UploadEnd")
                               EXCEPT !.exit = "unsupported"])

\* what the target of a handler is when its request is read
PreOf(s) ==
    IF s.full = <<>> THEN "none"
    ELSE IF \E q \in AtOrAbove(s.full) : q # s.full /\ fs[q].k = "file" THEN "blocked"
    ELSE IF KindOf(fs, s.full) = "absent" THEN "fresh"
    ELSE KindOf(fs, s.full)

\* the peer of a request: the client of commands.rs for a download, a
\* scripted peer for the rest
PeerOf(r) == IF r.t = "DownloadStart" THEN "dl_header" ELSE "raw"

\* the accept loop ended by the error of a handler
AcceptedUnlessFailed(c) ==
    \A d \in Conns : d < c => srv[d].pc # "AwaitRequest" /\ srv[d].exit # "handler_err"

\* connections are numbered in the order the listener accepts them
Accepted(c) == \A d \in Conns : d < c => srv[d].pc # "AwaitRequest"

\* read_packet gives the request r the peer sends, then the dispatch
ReadRequest(c, r) ==
    /\ srv[c].pc = "AwaitRequest"
    /\ Accepted(c)
    /\ srv' = [srv EXCEPT ![c] = dispatch([@ EXCEPT !.req = r], r)]
    /\ cli' = [cli EXCEPT ![c].pc = PeerOf(r)]
    /\ pre' = [pre EXCEPT ![c] = PreOf(srv'[c])]
    /\ UNCHANGED <<fsvars, touched, sjvars, frvars>>

\* the failed read answered with nothing
read_failed_silent(s) == shutdown([s EXCEPT !.exit = "read_failed"])

\* the Err arm of the match on the first read_packet
read_failed(s) ==
    shutdown([send_error(s, "Failed to read packet") EXCEPT !.exit = "read_failed"])

\* read_packet fails: the peer closed without a request, or sent bytes that
\* are no packet
ReadRequestFails(c) ==
    /\ srv[c].pc = "AwaitRequest"
    /\ Accepted(c)
    /\ srv' = [srv EXCEPT ![c] = read_failed(@)]
    /\ cli' = [cli EXCEPT ![c].pc = "closed"]
    /\ UNCHANGED <<fsvars, pre, touched, sjvars, frvars>>

(***************************************************************************)
(* handle_download                                                         *)
(***************************************************************************)
\* fs::metadata, then the DownloadStart header
DownloadStat(c) ==
    LET s == [srv[c] EXCEPT !.fsused = TRUE]
        n == fs[s.full]
    IN  /\ srv[c].pc = "dl_stat"
        /\ \/ /\ n.k = "absent"
              /\ srv' = [srv EXCEPT ![c] = handler_err(s)]
           \/ /\ n.k = "file"
              /\ srv' = [srv EXCEPT ![c] =
                    [send(s, DownloadStart(s.req.path, Len(idata[n.ino]),
                                           S_IFREG + iperm[n.ino]))
                        EXCEPT !.pc = "dl_open"]]
           \/ /\ n.k = "dir"
              /\ \E sz \in DirSizes :
                    srv' = [srv EXCEPT ![c] =
                       [send(s, DownloadStart(s.req.path, sz, S_IFDIR + DefaultDirPerm))
                           EXCEPT !.pc = "dl_open"]]
        /\ UNCHANGED <<fsvars, pre, touched, cli, sjvars, frvars>>

\* fs::File::open
DownloadOpen(c) ==
    LET s == srv[c]
        n == fs[s.full]
    IN  /\ s.pc = "dl_open"
        /\ srv' = [srv EXCEPT ![c] =
              CASE n.k = "absent" -> handler_err(s)
                [] n.k = "file" -> [s EXCEPT !.fh = n.ino, !.fpos = 0, !.pc = "dl_read"]
                [] OTHER -> [s EXCEPT !.fh = DirHandle, !.fpos = 0, !.pc = "dl_read"]]
        /\ UNCHANGED <<fsvars, pre, touched, cli, sjvars, frvars>>

\* one turn of the read loop: file.read, then DownloadChunk, or DownloadEnd
\* and the return to the dispatcher
DownloadRead(c) ==
    LET s == srv[c]
        d == IF s.fh \in Inodes THEN idata[s.fh] ELSE <<>>
        bytes_read == IF s.fpos < Len(d) THEN Min(CHUNK_SIZE, Len(d) - s.fpos) ELSE 0
    IN  /\ s.pc = "dl_read"
        /\ srv' = [srv EXCEPT ![c] =
              IF s.fh = DirHandle THEN handler_err(s)
              ELSE IF bytes_read = 0 THEN handler_ok(send(s, DownloadEnd))
              ELSE [send(s, DownloadChunk(SubSeq(d, s.fpos + 1, s.fpos + bytes_read)))
                       EXCEPT !.fpos = s.fpos + bytes_read]]
        /\ UNCHANGED fs
        /\ StoreInodes(idata, iperm)
        /\ UNCHANGED <<pre, touched, cli, sjvars, frvars>>


(***************************************************************************)
(* handle_upload (the ready Ok is sent by upload_begin)                    *)
(***************************************************************************)
\* fs::create_dir_all(parent)
UploadMkdir(c) ==
    LET s == [srv[c] EXCEPT !.fsused = TRUE]
        parent == Parent(s.full)
        missing == { q \in AtOrAbove(parent) : fs[q].k = "absent" }
    IN  /\ srv[c].pc = "ul_mkdir"
        /\ IF CanCreateDirAll(parent)
           THEN /\ fs' = [q \in AllPaths |-> IF q \in missing THEN Dir ELSE fs[q]]
                /\ srv' = [srv EXCEPT ![c] =
                      [s EXCEPT !.pc = IF s.req.force THEN "ul_open" ELSE "ul_exists"]]
                /\ IF missing # {} THEN Touch(c, parent) ELSE UNCHANGED touched
           ELSE /\ srv' = [srv EXCEPT ![c] = handler_err(s)]
                /\ UNCHANGED <<fs, touched>>
        /\ UNCHANGED <<idata, iperm, pre, cli, sjvars, frvars>>

\* the existence check, ignored
upload_exists_ignored(s, exists) == [s EXCEPT !.pc = "ul_open"]

\* !force && fs::try_exists(&full_path): reached only when force is false
upload_exists(s, exists) ==
    IF exists THEN handler_err(send_error(s, "File already exists"))
    ELSE [s EXCEPT !.pc = "ul_open"]

UploadExists(c) ==
    /\ srv[c].pc = "ul_exists"
    /\ srv' = [srv EXCEPT ![c] = upload_exists(@, Exists(@.full))]
    /\ UNCHANGED <<fsvars, pre, touched, cli, sjvars, frvars>>

\* the file opened without truncate(true)
open_untruncated(d) == d

\* truncate(true): the bytes of the file opened are dropped
open_truncated(d) == <<>>

\* OpenOptions create + write + truncate
UploadOpen(c) ==
    LET s == srv[c]
        p == s.full
        n == fs[p]
        i == IF n.k = "file" THEN n.ino ELSE FreeInode
    IN  /\ s.pc = "ul_open"
        /\ IF KindOf(fs, Parent(p)) = "dir" /\ n.k # "dir"
           THEN /\ fs' = [fs EXCEPT ![p] = FileNode(i)]
                /\ srv' = [srv EXCEPT ![c] =
                      [s EXCEPT !.fh = i, !.fpos = 0, !.pc = "ul_chmod"]]
                /\ StoreInodes([idata EXCEPT ![i] = open_truncated(@)],
                               IF n.k = "file" THEN iperm
                               ELSE [iperm EXCEPT ![i] = DefaultFilePerm])
                /\ Touch(c, p)
           ELSE /\ srv' = [srv EXCEPT ![c] = handler_err(s)]
                /\ UNCHANGED <<fsvars, touched>>
        /\ UNCHANGED <<pre, cli, sjvars, frvars>>

\* file.set_permissions(Permissions::from_mode(mode)): fchmod keeps the
\* permission bits of mode
UploadChmod(c) ==
    LET s == srv[c]
    IN  /\ s.pc = "ul_chmod"
        /\ srv' = [srv EXCEPT ![c].pc = "ul_body"]
        /\ iperm' = [iperm EXCEPT ![s.fh] = s.req.mode % PermMask]
        /\ Touch(c, s.full)
        /\ UNCHANGED <<fs, idata, pre, cli, sjvars, frvars>>

\* the check after the read loop, left out
upload_end_unchecked(s) == handler_ok(s)

\* UploadEnd: leave the loop, compare received_bytes with total_size
upload_end(s) ==
    IF s.received_bytes # s.req.size
    THEN handler_err(send_error(s, "File size mismatch"))
    ELSE handler_ok(s)

\* the chunk written at the front of the file
write_chunk_front(d, pos, chunk) == chunk \o d

\* file.write_all(&data) at the handle's offset
write_chunk(d, pos, chunk) == WriteAt(d, pos, chunk)

\* the unexpected packet skipped, the loop going on
upload_unexpected_ignored(s) == [s EXCEPT !.deviated = TRUE]

\* the catch-all arm of the match in the body loop
upload_unexpected(s) ==
    handler_err(send_error([s EXCEPT !.deviated = TRUE],
                           "Unexpected packet during upload"))

\* the bytes of the next chunk of an upload's peer: the server never looks
\* into a chunk, so each byte is named after its connection and its place in
\* the body
ChunkData(c) == << 10 * c + srv[c].received_bytes + 1 >>

\* the packet the server reads next from the client of commands.rs: the
\* first packet the client has written and the server has not read (each
\* chunk of the client carries one byte, so the server has read as many
\* packets as bytes), none when it has read them all
ClientBodyPackets(c) ==
    IF Len(cli[c].out) <= srv[c].received_bytes THEN {}
    ELSE {cli[c].out[srv[c].received_bytes + 1]}

\* what the server may read next inside the body: from a scripted peer
\* anything, from the client what it has written
BodyPackets(c) ==
    IF cli[c].pc = "raw" THEN {UploadChunk(ChunkData(c)), UploadEnd, Ping}
    ELSE ClientBodyPackets(c)

\* one turn of the body loop: read_packet gives the packet the peer sends
\* next, then the match on it
UploadBody(c, packet) ==
    LET s == srv[c]
    IN  /\ s.pc = "ul_body"
        /\ packet \in BodyPackets(c)
        /\ UNCHANGED <<fs, pre, cli, sjvars, frvars>>
        /\ \/ /\ packet.t = "UploadChunk"
              /\ s.received_bytes + Len(packet.data) <= MaxRecv
              /\ srv' = [srv EXCEPT ![c] =
                    [s EXCEPT !.received_bytes = @ + Len(packet.data),
                              !.wrote = @ + Len(packet.data),
                              !.fpos = @ + Len(packet.data),
                              !.body = @ \o packet.data]]
              /\ idata' = [idata EXCEPT ![s.fh] = write_chunk(@, s.fpos, packet.data)]
              /\ Touch(c, s.full)
              /\ UNCHANGED iperm
           \/ /\ packet.t = "UploadEnd"
              /\ srv' = [srv EXCEPT ![c] = upload_end([s EXCEPT !.ended = TRUE])]
              /\ StoreInodes(idata, iperm)
              /\ UNCHANGED touched
           \/ /\ packet.t \notin {"UploadChunk", "UploadEnd"}
              /\ srv' = [srv EXCEPT ![c] = upload_unexpected(s)]
              /\ StoreInodes(idata, iperm)
              /\ UNCHANGED touched

\* read_packet fails in the body loop: the peer closed
UploadBodyFails(c) ==
    /\ srv[c].pc = "ul_body"
    /\ cli[c].pc = "raw"
    /\ srv' = [srv EXCEPT ![c] = handler_err([@ EXCEPT !.deviated = TRUE])]
    /\ cli' = [cli EXCEPT ![c].pc = "closed"]
    /\ UNCHANGED fs
    /\ StoreInodes(idata, iperm)
    /\ UNCHANGED <<pre, touched, sjvars, frvars>>

(***************************************************************************)
(* handle_remove                                                           *)
(***************************************************************************)
\* the force flag ignored
remove_absent_strict(s) == handler_err(send_error(s, "Path does not exist"))

\* the Ok(false) arm of the match on fs::try_exists
remove_absent(s) ==
    IF s.req.force THEN handler_ok(send_ok(s))
    ELSE handler_err(send_error(s, "Path does not exist"))

\* fs::try_exists
RemoveExists(c) ==
    LET s == [srv[c] EXCEPT !.fsused = TRUE]
    IN  /\ srv[c].pc = "rm_exists"
        /\ srv' = [srv EXCEPT ![c] =
              IF Exists(s.full) THEN [s EXCEPT !.pc = "rm_stat"]
              ELSE remove_absent(s)]
        /\ UNCHANGED <<fsvars, pre, touched, cli, sjvars, frvars>>

\* fs::metadata
RemoveStat(c) ==
    LET s == srv[c]
        k == fs[s.full].k
    IN  /\ s.pc = "rm_stat"
        /\ srv' = [srv EXCEPT ![c] =
              CASE k = "absent" -> handler_err(send_error(s, "Failed to get path metadata"))
                [] k = "file" -> [s EXCEPT !.pc = "rm_file"]
                [] OTHER -> [s EXCEPT !.pc = IF s.req.recursive THEN "rm_dir_all"
                                              ELSE "rm_dir"]]
        /\ UNCHANGED <<fsvars, pre, touched, cli, sjvars, frvars>>

\* fs::remove_file, then the handler's Ok and the dispatcher's
RemoveFile(c) ==
    LET s == srv[c]
    IN  /\ s.pc = "rm_file"
        /\ IF fs[s.full].k = "file"
           THEN /\ fs' = [fs EXCEPT ![s.full] = Absent]
                /\ srv' = [srv EXCEPT ![c] = handler_ok(send_ok(s))]
                /\ StoreInodes(idata, iperm)
                /\ Touch(c, s.full)
           ELSE /\ srv' = [srv EXCEPT ![c] =
                      handler_err(send_error(s, "Failed to delete file"))]
                /\ UNCHANGED <<fsvars, touched>>
        /\ UNCHANGED <<pre, cli, sjvars, frvars>>

\* fs::remove_dir_all
RemoveDirAll(c) ==
    LET s == srv[c]
    IN  /\ s.pc = "rm_dir_all"
        /\ IF fs[s.full].k = "dir"
           THEN /\ fs' = [q \in AllPaths |-> IF IsPrefix(s.full, q) THEN Absent ELSE fs[q]]
                /\ srv' = [srv EXCEPT ![c] = handler_ok(send_ok(s))]
                /\ StoreInodes(idata, iperm)
                /\ Touch(c, s.full)
           ELSE /\ srv' = [srv EXCEPT ![c] =
                      handler_err(send_error(s, "Failed to delete directory recursively"))]
                /\ UNCHANGED <<fsvars, touched>>
        /\ UNCHANGED <<pre, cli, sjvars, frvars>>

\* a directory taken for empty whatever it holds
DirEmptyAlways(p) == TRUE

\* rmdir(2) removes an empty directory only
DirEmpty(p) == \A q \in Below(p) : fs[q].k = "absent"

\* fs::remove_dir
RemoveDir(c) ==
    LET s == srv[c]
        empty == DirEmpty(s.full)
    IN  /\ s.pc = "rm_dir"
        /\ IF fs[s.full].k = "dir" /\ empty
           THEN /\ fs' = [fs EXCEPT ![s.full] = Absent]
                /\ srv' = [srv EXCEPT ![c] = handler_ok(send_ok(s))]
                /\ Touch(c, s.full)
           ELSE /\ srv' = [srv EXCEPT ![c] =
                      handler_err(send_error(s,
                         IF fs[s.full].k = "dir"
                         THEN "Directory not empty (use recursive flag)"
                         ELSE "Failed to delete directory"))]
                /\ UNCHANGED <<fs, touched>>
        /\ UNCHANGED <<idata, iperm, pre, cli, sjvars, frvars>>

(***************************************************************************)
(* handle_list                                                             *)
(***************************************************************************)
\* the entries named relative to the requested path
ListEntriesRelative(full_path) ==
    { [path |-> JoinSlash(StripPrefix(q, full_path)), size |-> Len(idata[fs[q].ino])] :
        q \in { r \in AllPaths : IsPrefix(full_path, r) /\ fs[r].k = "file" } }

\* the WalkDir loop: the non-directories at or below full_path, each with
\* its path relative to output_path and its size
ListEntries(full_path) ==
    { [path |-> JoinSlash(StripPrefix(q, Root)), size |-> Len(idata[fs[q].ino])] :
        q \in { r \in AllPaths : IsPrefix(full_path, r) /\ fs[r].k = "file" } }

\* the walk, then List, the handler's Ok and the dispatcher's
ListWalk(c) ==
    LET s == [srv[c] EXCEPT !.fsused = TRUE]
    IN  /\ srv[c].pc = "ls_walk"
        /\ srv' = [srv EXCEPT ![c] =
              handler_ok(send_ok(send(s, List(s.req.path, ListEntries(s.full)))))]
        /\ UNCHANGED <<fsvars, pre, touched, cli, sjvars, frvars>>


(***************************************************************************)
(* The peer.  What the peer sends is taken at the server's read of it (the *)
(* server sees only the order of the peer's packets): a scripted peer      *)
(* sends any request but a download and any upload body, or closes.  A     *)
(* download is requested by the client of commands.rs, which reads the     *)
(* server's packets in the order written.                                  *)
(***************************************************************************)
Requests ==
    DownloadRequests \cup UploadRequests \cup RemoveRequests \cup ListRequests
        \cup {Ping} \cup OtherRequests

\* read_packet at the client: the next packet the server wrote, or a failed
\* read once the server has shut the socket down
ClientCanRead(c) == cli[c].rd < Len(srv[c].sent)

\* a read that waits for ever on a socket the server has shut down
ClientReadHangs(c) == FALSE

ClientReadFails(c) == cli[c].rd = Len(srv[c].sent) /\ srv[c].pc = "Done"

client_fail(cl, e) == [cl EXCEPT !.pc = "failed", !.err = e]

\* the match on the first response; File::create truncates the local
\* file, and fails on one it cannot reach
client_download_header(cl, packet) ==
    CASE packet.t = "DownloadStart" ->
            IF cl.lstate = "hidden" THEN client_fail(cl, "Failed to create file")
            ELSE [cl EXCEPT !.total_size = packet.size, !.received_bytes = 0,
                            !.lfile = <<>>, !.lstate = "file", !.pc = "dl_body"]
      [] packet.t = "Error" -> client_fail(cl, packet.msg)
      [] OTHER -> client_fail(cl, "Unexpected response")

\* the size comparison after the loop, left out
client_download_end_unchecked(cl) == [cl EXCEPT !.pc = "ok"]

\* DownloadEnd: leave the loop, compare received_bytes with total_size
client_download_end(cl) ==
    IF cl.received_bytes # cl.total_size THEN client_fail(cl, "File size mismatch")
    ELSE [cl EXCEPT !.pc = "ok"]

\* the match of the body loop
client_download_body(cl, packet) ==
    CASE packet.t = "DownloadChunk" ->
            [cl EXCEPT !.received_bytes = @ + Len(packet.data),
                       !.lfile = @ \o packet.data]
      [] packet.t = "DownloadEnd" -> client_download_end(cl)
      [] packet.t = "Error" -> client_fail(cl, packet.msg)
      [] OTHER -> client_fail(cl, "Unexpected packet")

ClientDownloadStep(c) ==
    LET cl == cli[c]
        packet == srv[c].sent[cl.rd + 1]
    IN  /\ cl.pc \in {"dl_header", "dl_body"}
        /\ \/ /\ ClientCanRead(c)
              /\ cli' = [cli EXCEPT ![c] =
                    IF cl.pc = "dl_header"
                    THEN client_download_header([cl EXCEPT !.rd = @ + 1], packet)
                    ELSE client_download_body([cl EXCEPT !.rd = @ + 1], packet)]
           \/ /\ ClientReadFails(c)
              /\ cli' = [cli EXCEPT ![c] = client_fail(cl, "Failed to read packet")]
        /\ UNCHANGED <<fsvars, srv, pre, touched, sjvars, frvars>>

(***************************************************************************)
(* The other client flows of commands.rs: upload, list, remove, ping.  A   *)
(* write of the client succeeds while the server holds the socket; once    *)
(* the server has shut it down the write is answered by a reset, and it    *)
(* or a later write of the client fails.                                   *)
(***************************************************************************)
\* the local files a download may find in its way: none, one of a byte, or
\* one of a byte in a directory the client may not search
LocalFiles ==
    { [state |-> "absent", data |-> <<>>], [state |-> "file", data |-> <<5>>],
      [state |-> "hidden", data |-> <<5>>] }

\* download is called with `force`, its local target being as `lf` says
ClientDownloadCall(c, force, lf) ==
    /\ cli[c].pc = "idle"
    /\ srv[c].pc = "AwaitRequest"
    /\ cli' = [cli EXCEPT ![c] = [@ EXCEPT !.pc = "dl_check", !.force = force,
                                            !.lstate = lf.state, !.lfile = lf.data]]
    /\ UNCHANGED <<fsvars, srv, pre, touched, sjvars, frvars>>

\* fs::try_exists(&local_path).await.unwrap_or(false): an error of the
\* lookup counts as an absent file
try_exists_or_false(lstate) == lstate = "file"

\* the check of the local target left out
download_refused_never(force, lstate) == FALSE

\* !force && fs::try_exists(&local_path).await.unwrap_or(false)
download_refused(force, lstate) == ~force /\ try_exists_or_false(lstate)

\* the check before with_connection; force is not read after it
ClientDownloadCheck(c) ==
    LET cl == cli[c]
    IN  /\ cl.pc = "dl_check"
        /\ cli' = [cli EXCEPT ![c] =
              IF download_refused(cl.force, cl.lstate)
              THEN client_fail(cl, "File already exists")
              ELSE [cl EXCEPT !.pc = "dl_connect", !.force = FALSE]]
        /\ UNCHANGED <<fsvars, srv, pre, touched, sjvars, frvars>>

\* where each operation of the client stands when it connects
ClientAt(r) == IF r.t = "DownloadStart" THEN "dl_connect" ELSE "idle"

ClientOf(r) ==
    CASE r.t = "DownloadStart" -> "dl_header"
      [] r.t = "UploadStart" -> "ul_ready"
      [] r.t = "List" -> "ls_resp"
      [] r.t = "Remove" -> "rm_resp"
      [] OTHER -> "ping_resp"

ClientRequests ==
    DownloadRequests \cup UploadRequests \cup RemoveRequests \cup ListRequests \cup {Ping}

\* connections are numbered in the order the listener accepts them; an
\* operation that has ended without one is passed over
ConnectsNext(c) ==
    \A d \in Conns : d < c => srv[d].pc # "AwaitRequest" \/ cli[d].pc = "failed"

\* the client connects and writes its request r; the server reads it
ClientRequest(c, r) ==
    /\ srv[c].pc = "AwaitRequest"
    /\ cli[c].pc = ClientAt(r)
    /\ ConnectsNext(c)
    /\ srv' = [srv EXCEPT ![c] = dispatch([@ EXCEPT !.req = r], r)]
    /\ cli' = [cli EXCEPT ![c].pc = ClientOf(r)]
    /\ pre' = [pre EXCEPT ![c] = PreOf(srv'[c])]
    /\ UNCHANGED <<fsvars, touched, sjvars, frvars>>

\* the match of upload on the response to UploadStart
client_upload_ready(cl, packet) ==
    CASE packet.t = "Ok" -> [cl EXCEPT !.pc = "ul_send"]
      [] packet.t = "Error" -> client_fail(cl, packet.msg)
      [] OTHER -> client_fail(cl, "Unexpected response")

\* the match of upload on the response to UploadEnd
client_upload_final(cl, packet) ==
    CASE packet.t = "Ok" -> [cl EXCEPT !.pc = "ok"]
      [] packet.t = "Error" -> client_fail(cl, packet.msg)
      [] OTHER -> client_fail(cl, "Unexpected response")

\* the match of list on the response
client_list(cl, packet) ==
    CASE packet.t = "List" -> [cl EXCEPT !.pc = "ok"]
      [] packet.t = "Error" -> client_fail(cl, packet.msg)
      [] OTHER -> client_fail(cl, "Unexpected response")

\* the match of remove and of ping on the response
client_expect_ok(cl, packet) ==
    CASE packet.t = "Ok" -> [cl EXCEPT !.pc = "ok"]
      [] packet.t = "Error" -> client_fail(cl, packet.msg)
      [] OTHER -> client_fail(cl, "Unexpected response")

\* one read_packet of upload, list, remove or ping, then the match on it
ClientRead(c) ==
    LET cl == cli[c]
        packet == srv[c].sent[cl.rd + 1]
        taken == [cl EXCEPT !.rd = @ + 1]
    IN  /\ cl.pc \in {"ul_ready", "ul_final", "ls_resp", "rm_resp", "ping_resp"}
        /\ \/ /\ ClientCanRead(c)
              /\ cli' = [cli EXCEPT ![c] =
                    CASE cl.pc = "ul_ready" -> client_upload_ready(taken, packet)
                      [] cl.pc = "ul_final" -> client_upload_final(taken, packet)
                      [] cl.pc = "ls_resp" -> client_list(taken, packet)
                      [] OTHER -> client_expect_ok(taken, packet)]
           \/ /\ ClientReadFails(c)
              /\ cli' = [cli EXCEPT ![c] = client_fail(cl, "Failed to read packet")]
        /\ UNCHANGED <<fsvars, srv, pre, touched, sjvars, frvars>>

\* file.read at the end of the local file whatever is left of it
upload_bytes_read_eof(sent_bytes, len) == 0

\* file.read(&mut buffer): the bytes left of the local file, up to the one
\* byte a chunk carries here, and 0 at its end
upload_bytes_read(sent_bytes, len) == Min(1, len - sent_bytes)

\* the bytes of the next chunk of an uploading client, named as ChunkData
\* names them
ClientChunkData(c) == << 10 * c + cli[c].sent_bytes + 1 >>

\* one turn of the loop of upload: a chunk of the local file written, or
\* UploadEnd after the last; the local file has the length the client
\* announced in UploadStart (metadata.len())
ClientUploadWrite(c) ==
    LET cl == cli[c]
        bytes_read == upload_bytes_read(cl.sent_bytes, srv[c].req.size)
        last == bytes_read = 0
    IN  /\ cl.pc = "ul_send"
        /\ \/ cli' = [cli EXCEPT ![c] =
                    [cl EXCEPT !.out = Append(@, IF last THEN UploadEnd
                                                 ELSE UploadChunk(ClientChunkData(c))),
                               !.sent_bytes = @ + bytes_read,
                               !.pc = IF last THEN "ul_final" ELSE "ul_send"]]
           \/ /\ srv[c].pc = "Done"
              /\ cli' = [cli EXCEPT ![c] =
                    client_fail(cl, IF last THEN "Failed to send upload end packet"
                                    ELSE "Failed to send file chunk")]
        /\ UNCHANGED <<fsvars, srv, pre, touched, sjvars, frvars>>

(***************************************************************************)
(* The specification of the server with its peers.                         *)
(***************************************************************************)
ServerStep(c) ==
    \/ \E r \in Requests : ReadRequest(c, r)
    \/ ReadRequestFails(c)
    \/ DownloadStat(c)
    \/ DownloadOpen(c)
    \/ DownloadRead(c)
    \/ UploadMkdir(c)
    \/ UploadExists(c)
    \/ UploadOpen(c)
    \/ UploadChmod(c)
    \/ \E p \in BodyPackets(c) : UploadBody(c, p)
    \/ UploadBodyFails(c)
    \/ RemoveExists(c)
    \/ RemoveStat(c)
    \/ RemoveFile(c)
    \/ RemoveDirAll(c)
    \/ RemoveDir(c)
    \/ ListWalk(c)

Next == \E c \in Conns : ServerStep(c) \/ ClientDownloadStep(c)

Spec == Init /\ [][Next]_vars

(***************************************************************************)
(* The specification of the server with the clients of commands.rs as its  *)
(* only peers.                                                             *)
(***************************************************************************)
ServerStepClients(c) ==
    \/ \E r \in ClientRequests : ClientRequest(c, r)
    \/ DownloadStat(c)
    \/ DownloadOpen(c)
    \/ DownloadRead(c)
    \/ UploadMkdir(c)
    \/ UploadExists(c)
    \/ UploadOpen(c)
    \/ UploadChmod(c)
    \/ \E p \in BodyPackets(c) : UploadBody(c, p)
    \/ RemoveExists(c)
    \/ RemoveStat(c)
    \/ RemoveFile(c)
    \/ RemoveDirAll(c)
    \/ RemoveDir(c)
    \/ ListWalk(c)

ClientStep(c) ==
    \/ \E force \in BOOLEAN, lf \in LocalFiles : ClientDownloadCall(c, force, lf)
    \/ ClientDownloadCheck(c)
    \/ ClientDownloadStep(c)
    \/ ClientRead(c)
    \/ ClientUploadWrite(c)

NextClients == \E c \in Conns : ServerStepClients(c) \/ ClientStep(c)

SpecClients == Init /\ [][NextClients]_vars

\* every socket and file operation completes in the end: the task of each
\* connection (a tokio task of its own) and the client of each connection (a
\* process of its own) go on as long as they can
FairClients ==
    \A c \in Conns : WF_vars(ServerStepClients(c)) /\ WF_vars(ClientStep(c))

\* the server started on a storage root that holds the file a
InitLive == Init /\ fs[Root \o <<A>>].k = "file"

LiveSpecClients == InitLive /\ [][NextClients]_vars /\ FairClients

(***************************************************************************)
(* The specification of the path resolver: safe_join applied to every base *)
(* of Bases and every string over Alphabet of at most MaxRelLen characters.*)
(***************************************************************************)
Bases == { <<>>, Root, Root \o <<A>> }

InitPath ==
    /\ \E t \in InitTrees :
          /\ t.fs[Root \o <<A>>].k = "absent"
          /\ fs = t.fs /\ idata = t.idata /\ iperm = t.iperm
    /\ InitConns
    /\ InitFrame
    /\ sj_base \in Bases
    /\ sj_rel = <<>>
    /\ sj_res = safe_join(sj_base, sj_rel)

PathPush(ch) ==
    /\ Len(sj_rel) < MaxRelLen
    /\ sj_rel' = Append(sj_rel, ch)
    /\ sj_res' = safe_join(sj_base, sj_rel')
    /\ UNCHANGED <<fsvars, srv, pre, touched, cli, sj_base, frvars>>

NextPath == \E ch \in Alphabet : PathPush(ch)

SpecPath == InitPath /\ [][NextPath]_vars


(***************************************************************************)
(* The framing codec, Connection::write_packet and Connection::read_packet,*)
(* over one direction of one connection.  A byte string is kept as runs of *)
(* equal bytes, so that a payload longer than a u32 can count is as cheap  *)
(* as a short one; strings and byte vectors are byte strings.              *)
(***************************************************************************)
\* values of a byte: 256 in the code, scaled down; a u32 is four bytes wide
\* and a u64 eight, as in the code
ByteBase == 4

\* packets written on the connection
MaxFrames == 2

\* 2^32: the values of a u32
U32 == ByteBase ^ 4

Run(b, n) == [b |-> b, n |-> n]

\* the runs of a byte string, adjacent runs of the same byte made one
RECURSIVE Norm(_)
Norm(x) ==
    IF x = <<>> THEN <<>>
    ELSE IF x[1].n = 0 THEN Norm(Tail(x))
    ELSE LET r == Norm(Tail(x))
         IN  IF r # <<>> /\ r[1].b = x[1].b
             THEN <<Run(x[1].b, x[1].n + r[1].n)>> \o Tail(r)
             ELSE <<x[1]>> \o r

\* the byte string of a sequence of bytes
Bytes(list) == Norm([i \in 1..Len(list) |-> Run(list[i], 1)])

Cat(x, y) == Norm(x \o y)

RECURSIVE BLen(_)
BLen(x) == IF x = <<>> THEN 0 ELSE x[1].n + BLen(Tail(x))

\* the first k bytes of x, and x without them
RECURSIVE Take(_, _)
Take(x, k) ==
    IF k = 0 \/ x = <<>> THEN <<>>
    ELSE IF x[1].n <= k THEN <<x[1]>> \o Take(Tail(x), k - x[1].n)
    ELSE <<Run(x[1].b, k)>>

RECURSIVE Drop(_, _)
Drop(x, k) ==
    IF k = 0 \/ x = <<>> THEN x
    ELSE IF x[1].n <= k THEN Drop(Tail(x), k - x[1].n)
    ELSE <<Run(x[1].b, x[1].n - k)>> \o Tail(x)

\* the bytes of a short byte string, one by one
RECURSIVE Expand(_)
Expand(x) ==
    IF x = <<>> THEN <<>>
    ELSE [i \in 1..x[1].n |-> x[1].b] \o Expand(Tail(x))

\* to_le_bytes, to_be_bytes, from_le_bytes and from_be_bytes of a number w
\* bytes wide
RECURSIVE LE(_, _)
LE(n, w) == IF w = 0 THEN <<>> ELSE <<n % ByteBase>> \o LE(n \div ByteBase, w - 1)

RECURSIVE BE(_, _)
BE(n, w) == IF w = 0 THEN <<>> ELSE BE(n \div ByteBase, w - 1) \o <<n % ByteBase>>

RECURSIVE FromLE(_)
FromLE(b) == IF b = <<>> THEN 0 ELSE b[1] + ByteBase * FromLE(Tail(b))

RECURSIVE FromBE(_)
FromBE(b) ==
    IF b = <<>> THEN 0
    ELSE ByteBase * FromBE(SubSeq(b, 1, Len(b) - 1)) + b[Len(b)]

\* bincode::serialize with the default options of bincode 1: integers of
\* fixed width, little-endian; an enum as the u32 index of its variant and
\* then its fields; a String or a Vec as its u64 length and its elements; a
\* bool as one byte
put_u32(n) == Bytes(LE(n, 4))

put_u64(n) == Bytes(LE(n, 8))

put_bool(b) == Bytes(<< IF b THEN 1 ELSE 0 >>)

put_bytes(d) == Cat(put_u64(BLen(d)), d)

put_file(f) == Cat(put_bytes(f.path), put_u64(f.size))

RECURSIVE put_files(_)
put_files(es) == IF es = <<>> THEN <<>> ELSE Cat(put_file(es[1]), put_files(Tail(es)))

\* the index of a variant in enum Packet
VariantIndex(t) ==
    CASE t = "Ok" -> 0
      [] t = "Error" -> 1
      [] t = "DownloadStart" -> 2
      [] t = "DownloadChunk" -> 3
      [] t = "DownloadEnd" -> 4
      [] t = "UploadStart" -> 5
      [] t = "UploadChunk" -> 6
      [] t = "UploadEnd" -> 7
      [] t = "List" -> 8
      [] t = "Remove" -> 9
      [] t = "Ping" -> 10

serialize(packet) ==
    Cat(put_u32(VariantIndex(packet.t)),
        CASE packet.t = "Error" -> put_bytes(packet.msg)
          [] packet.t = "DownloadStart" ->
                Cat(put_bytes(packet.path), Cat(put_u64(packet.size), put_u32(packet.mode)))
          [] packet.t \in {"DownloadChunk", "UploadChunk"} -> put_bytes(packet.data)
          [] packet.t = "UploadStart" ->
                Cat(put_bytes(packet.path),
                    Cat(put_u64(packet.size),
                        Cat(put_u32(packet.mode), put_bool(packet.force))))
          [] packet.t = "List" ->
                Cat(put_bytes(packet.path),
                    Cat(put_u64(Len(packet.entries)), put_files(packet.entries)))
          [] packet.t = "Remove" ->
                Cat(put_bytes(packet.path),
                    Cat(put_bool(packet.force), put_bool(packet.recursive)))
          [] OTHER -> <<>>)

\* bincode::deserialize: each reader gives the value read and the bytes
\* left, or fails for want of bytes or on a byte that is no value; bytes
\* left over at the end are allowed
Fail == [ok |-> FALSE, val |-> 0, rest |-> <<>>]

Got(v, x) == [ok |-> TRUE, val |-> v, rest |-> x]

get_fixed(x, w) ==
    IF BLen(x) < w THEN Fail ELSE Got(FromLE(Expand(Take(x, w))), Drop(x, w))

get_bool(x) ==
    LET r == get_fixed(x, 1)
    IN  IF ~r.ok \/ r.val > 1 THEN Fail ELSE Got(r.val = 1, r.rest)

get_bytes(x) ==
    LET r == get_fixed(x, 8)
    IN  IF ~r.ok \/ BLen(r.rest) < r.val THEN Fail
        ELSE Got(Take(r.rest, r.val), Drop(r.rest, r.val))

get_file(x) ==
    LET path == get_bytes(x)
        size == get_fixed(path.rest, 8)
    IN  IF ~path.ok \/ ~size.ok THEN Fail
        ELSE Got([path |-> path.val, size |-> size.val], size.rest)

RECURSIVE get_files(_, _, _)
get_files(x, k, acc) ==
    IF k = 0 THEN Got(acc, x)
    ELSE LET f == get_file(x)
         IN  IF ~f.ok THEN Fail ELSE get_files(f.rest, k - 1, Append(acc, f.val))

Decoded(packet) == [ok |-> TRUE, packet |-> packet]

Failed(e) == [ok |-> FALSE, err |-> e]

deserialize(buffer) ==
    LET v == get_fixed(buffer, 4)
        bad == Failed("Failed to deserialize packet")
        path == get_bytes(v.rest)
        size == get_fixed(path.rest, 8)
        mode == get_fixed(size.rest, 4)
        force == get_bool(mode.rest)
        count == get_fixed(path.rest, 8)
        files == get_files(count.rest, count.val, <<>>)
        rforce == get_bool(path.rest)
        recursive == get_bool(rforce.rest)
    IN  IF ~v.ok THEN bad
        ELSE CASE v.val = 0 -> Decoded(Ok)
               [] v.val = 1 -> IF path.ok THEN Decoded(Error(path.val)) ELSE bad
               [] v.val = 2 ->
                     IF path.ok /\ size.ok /\ mode.ok
                     THEN Decoded(DownloadStart(path.val, size.val, mode.val)) ELSE bad
               [] v.val = 3 -> IF path.ok THEN Decoded(DownloadChunk(path.val)) ELSE bad
               [] v.val = 4 -> Decoded(DownloadEnd)
               [] v.val = 5 ->
                     IF path.ok /\ size.ok /\ mode.ok /\ force.ok
                     THEN Decoded(UploadStart(path.val, size.val, mode.val, force.val))
                     ELSE bad
               [] v.val = 6 -> IF path.ok THEN Decoded(UploadChunk(path.val)) ELSE bad
               [] v.val = 7 -> Decoded(UploadEnd)
               [] v.val = 8 ->
                     IF path.ok /\ count.ok /\ files.ok
                     THEN Decoded(List(path.val, files.val)) ELSE bad
               [] v.val = 9 ->
                     IF path.ok /\ rforce.ok /\ recursive.ok
                     THEN Decoded(Remove(path.val, rforce.val, recursive.val)) ELSE bad
               [] v.val = 10 -> Decoded(Ping)
               [] OTHER -> bad

\* the length prefix of a payload: bytes.len() as u32, big-endian
length_prefix(bytes) == BE(BLen(bytes) % U32, 4)

\* write_packet: the prefix, then the payload
frame_of(packet) ==
    LET bytes == serialize(packet)
    IN  [prefix |-> length_prefix(bytes), payload |-> bytes]

\* read_packet on the bytes in flight: read_exact waits for the bytes it
\* wants and fails when the writer has closed before they came
read_packet(wire, closed) ==
    LET len == FromBE(Expand(Take(wire, 4)))
        body == Drop(wire, 4)
        wait == [st |-> "wait", res |-> Failed(""), rest |-> wire]
    IN  IF BLen(wire) < 4
        THEN IF closed
             THEN [st |-> "done", res |-> Failed("Failed to read length prefix"),
                   rest |-> <<>>]
             ELSE wait
        ELSE IF BLen(body) < len
        THEN IF closed
             THEN [st |-> "done", res |-> Failed("Failed to read packet data"),
                   rest |-> <<>>]
             ELSE wait
        ELSE [st |-> "done", res |-> deserialize(Take(body, len)),
              rest |-> Drop(body, len)]

\* a chunk that makes a payload of 2^32 bytes
BigChunk == DownloadChunk(<< Run(0, U32 - 12) >>)

\* packets of every variant
FramePackets ==
    { Ok, Error(Bytes(<<1, 2>>)), DownloadStart(Bytes(<<1>>), 3, 100),
      DownloadChunk(<<>>), DownloadChunk(Bytes(<<0, 0, 1>>)), BigChunk, DownloadEnd,
      UploadStart(Bytes(<<1, 3>>), 2, 100, TRUE), UploadChunk(Bytes(<<3>>)),
      UploadEnd, List(Bytes(<<2>>), <<>>),
      List(Bytes(<<2>>), << [path |-> Bytes(<<1>>), size |-> 3],
                           [path |-> Bytes(<<2, 1>>), size |-> 0] >>),
      Remove(Bytes(<<1>>), TRUE, FALSE), Ping }

\* the reader has had a failed read_packet: its caller returns
ReaderFailed == fr_read # <<>> /\ ~fr_read[Len(fr_read)].ok

FrameWrite(packet) ==
    LET f == frame_of(packet)
    IN  /\ ~fr_closed
        /\ Len(fr_written) < MaxFrames
        /\ fr_wire' = Cat(fr_wire, Cat(Bytes(f.prefix), f.payload))
        /\ fr_written' = Append(fr_written, packet)
        /\ fr_frames' = Append(fr_frames, f)
        /\ UNCHANGED <<fr_read, fr_closed>>
        /\ UNCHANGED <<fsvars, srv, pre, touched, cli, sjvars>>

\* the writer shuts the socket down
FrameClose ==
    /\ ~fr_closed
    /\ fr_closed' = TRUE
    /\ UNCHANGED <<fr_wire, fr_written, fr_read, fr_frames>>
    /\ UNCHANGED <<fsvars, srv, pre, touched, cli, sjvars>>

FrameRead ==
    LET r == read_packet(fr_wire, fr_closed)
    IN  /\ ~ReaderFailed
        /\ r.st = "done"
        /\ fr_read' = Append(fr_read, r.res)
        /\ fr_wire' = r.rest
        /\ UNCHANGED <<fr_written, fr_frames, fr_closed>>
        /\ UNCHANGED <<fsvars, srv, pre, touched, cli, sjvars>>

InitCodec == Init /\ fs[Root \o <<A>>].k = "absent"

NextCodec == (\E packet \in FramePackets : FrameWrite(packet)) \/ FrameClose \/ FrameRead

SpecCodec == InitCodec /\ [][NextCodec]_vars


(***************************************************************************)
(* Properties.                                                             *)
(***************************************************************************)
Range(q) == { q[i] : i \in 1..Len(q) }

Last(q) == q[Len(q)]

\* the pieces of a relative path that are names, and those that are "..",
\* among the first k
NamePieces(ps, k) == { i \in 1..k : ps[i] \notin { <<>>, <<".">>, <<".", ".">> } }

ParentPieces(ps, k) == { i \in 1..k : ps[i] = <<".", ".">> }

\* a ".." met when as many ".." as names came before it: the path climbs
\* above its base
Escapes(rel) ==
    LET ps == SplitSlash(rel)
    IN  \E k \in 1..Len(ps) :
           Cardinality(ParentPieces(ps, k)) > Cardinality(NamePieces(ps, k))

HasRoot(rel) == rel # <<>> /\ Head(rel) = "/"

\* C1: whenever safe_join(base, relative) is Some(p), base is a
\* component-wise prefix of p; and safe_join is None for every relative
\* path that climbs above base with ".." or has a root component.
C1_SafeJoinSound ==
    /\ sj_res.ok => IsPrefix(sj_base, sj_res.path)
    /\ (Escapes(sj_rel) \/ HasRoot(sj_rel)) => ~sj_res.ok

\* a/.. is resolved to the base, ../a is rejected one step later
C1_Witness ==
    /\ sj_base = Root
    /\ sj_rel = <<".", ".", "/", "a">>
    /\ ~sj_res.ok
    /\ safe_join(Root, <<"a", "/", ".", ".">>) = Some(Root)

\* C2: a DownloadStart or UploadStart whose path escapes the storage root
\* is answered by Error("Invalid file path") alone, a List or Remove by
\* Error("Invalid path") alone, and the connection makes no filesystem call.
C2_PathEscapeRejected ==
    \A c \in Conns :
       LET s == srv[c]
       IN  (s.req.t \in {"DownloadStart", "UploadStart", "List", "Remove"}
              /\ (Escapes(s.req.path) \/ HasRoot(s.req.path)))
           => /\ s.sent = << Error(IF s.req.t \in {"DownloadStart", "UploadStart"}
                                   THEN "Invalid file path" ELSE "Invalid path") >>
              /\ s.pc = "Done"
              /\ ~s.fsused
              /\ s.fh = 0
              /\ s.wrote = 0

C2_Witness ==
    \E c \in Conns :
       /\ srv[c].req = DownloadStart(<<".", ".", "/", "a">>, 0, 0)
       /\ srv[c].sent = << Error("Invalid file path") >>
       /\ cli[c].pc = "failed"
       /\ cli[c].err = "Invalid file path"


IsUpload(c) == srv[c].req.t = "UploadStart" /\ srv[c].full # <<>>

\* C3 (as claimed): an upload that ends with the terminal Ok has written
\* exactly `size` bytes, and in no state has the server written more than
\* `size` bytes to the target.
C3_UploadWritesAtMostSize ==
    \A c \in Conns :
       IsUpload(c) =>
          /\ srv[c].wrote <= srv[c].req.size
          /\ srv[c].sent = <<Ok, Ok>> => srv[c].wrote = srv[c].req.size

DownloadStreamComplete(q) ==
    /\ Len(q) >= 3
    /\ q[1].t = "DownloadStart"
    /\ \A i \in 2..(Len(q) - 2) : q[i].t = "DownloadChunk" /\ q[i].data # <<>>
    /\ q[Len(q) - 1] = DownloadEnd
    /\ q[Len(q)] = Ok

\* C5 (as claimed): a connection on which the server sent DownloadStart has,
\* when it is closed, carried DownloadStart, zero or more non-empty chunks,
\* one DownloadEnd and the terminal Ok, and nothing else.
C5_DownloadStreamShape ==
    \A c \in Conns :
       (srv[c].pc = "Done" /\ srv[c].sent # <<>> /\ srv[c].sent[1].t = "DownloadStart")
       => DownloadStreamComplete(srv[c].sent)

\* the bytes of the DownloadChunk packets among the first n packets of q
RECURSIVE ChunkBytes(_, _)
ChunkBytes(q, n) ==
    IF n = 0 THEN 0
    ELSE ChunkBytes(q, n - 1) + (IF q[n].t = "DownloadChunk" THEN Len(q[n].data) ELSE 0)

\* C6 (as claimed): once DownloadEnd is sent, the chunk bytes sent add up
\* to the size of the DownloadStart, whatever other connections do.
C6_DownloadSizeAgreement ==
    \A c \in Conns :
       DownloadEnd \in Range(srv[c].sent)
       => ChunkBytes(srv[c].sent, Len(srv[c].sent)) = srv[c].sent[1].size

\* C7: a client download that returns success has written to the local
\* file as many bytes as the DownloadStart it read announced; a client that
\* read DownloadEnd after another number of chunk bytes has failed.
C7_ClientDownloadSize ==
    \A c \in Conns :
       LET cl == cli[c]
           q == srv[c].sent
       IN  /\ cl.pc = "ok" =>
              /\ q[1].t = "DownloadStart"
              /\ Len(cl.lfile) = q[1].size
           /\ (cl.pc \in {"ok", "failed"} /\ cl.rd >= 2 /\ q[cl.rd] = DownloadEnd
                  /\ ChunkBytes(q, cl.rd) # q[1].size)
              => cl.pc = "failed"

\* the file a downloaded whole, in two chunks
C7_Witness ==
    \E c \in Conns :
       /\ cli[c].pc = "ok"
       /\ cli[c].lfile = <<7, 8, 9>>
       /\ srv[c].sent[1].size = 3

\* the upload of connection c has succeeded: the ready Ok and one more Ok,
\* and the target is a file holding the chunks read, in order, `size` bytes
\* in all, with the permission bits of the supplied mode
UploadSucceeded(c) ==
    LET s == srv[c]
    IN  /\ s.sent = <<Ok, Ok>>
        /\ fs[s.full].k = "file"
        /\ idata[fs[s.full].ino] = s.body
        /\ Len(s.body) = s.req.size
        /\ iperm[fs[s.full].ino] = s.req.mode % PermMask

\* the peer of an upload did what the protocol asks of it, as far as the
\* server read: chunks, then UploadEnd after `size` bytes
PeerFollowed(c) ==
    /\ ~srv[c].deviated
    /\ srv[c].ended => Len(srv[c].body) = srv[c].req.size

\* the task of an upload ends with this step
UploadEnds(c) == srv[c].pc # "Done" /\ srv'[c].pc = "Done" /\ IsUpload(c)'

C9_UploadSizeMismatch ==
    \A c \in Conns :
       (IsUpload(c) /\ srv[c].ended /\ Len(srv[c].body) # srv[c].req.size)
       => /\ srv[c].sent = <<Ok, Error("File size mismatch")>>
          /\ srv[c].pc = "Done"

\* one byte sent where two were announced, and on the other connection one
\* byte where none was
C9_Witness ==
    \E c, d \in Conns :
       /\ srv[c].ended /\ Len(srv[c].body) = 1 /\ srv[c].req.size = 2
       /\ srv[c].sent = <<Ok, Error("File size mismatch")>>
       /\ srv[d].ended /\ Len(srv[d].body) = 1 /\ srv[d].req.size = 0
       /\ srv[d].sent = <<Ok, Error("File size mismatch")>>

\* C10 (as claimed): the server writes exactly one packet, Ok or Error, on
\* the connection of a Remove request before closing it.
C10_RemoveOnePacket ==
    \A c \in Conns :
       (srv[c].req.t = "Remove" /\ srv[c].pc = "Done")
       => /\ Len(srv[c].sent) = 1
          /\ srv[c].sent[1].t \in {"Ok", "Error"}

IsRemove(c) == srv[c].req.t = "Remove" /\ srv[c].full # <<>>

\* every packet of q is Ok, and there is one at least
AnswersOk(q) == q # <<>> /\ \A i \in 1..Len(q) : q[i] = Ok

RemoveEnds(c) == srv[c].pc # "Done" /\ srv'[c].pc = "Done" /\ IsRemove(c)'

NotEmptyError == Error("Directory not empty (use recursive flag)")

\* C12: a Remove whose target no other connection touches ends, for a
\* regular file, with the file gone, the rest of the tree as it was and Ok;
\* for a directory with recursive = true, with the directory and all below
\* it gone and Ok; for a non-empty directory with recursive = false, with
\* Error("Directory not empty (use recursive flag)") alone and the tree and
\* every file as they were; for an empty directory with recursive = false,
\* with the directory gone and Ok.
C12_RemoveExisting ==
    [][\A c \in Conns :
          (RemoveEnds(c) /\ ~touched'[c]) =>
             LET s == srv[c]
                 p == s.full
             IN  /\ pre[c] = "file" =>
                       /\ fs' = [fs EXCEPT ![p] = Absent]
                       /\ AnswersOk(srv'[c].sent)
                 /\ (pre[c] = "dir" /\ s.req.recursive) =>
                       /\ \A q \in AllPaths :
                             fs'[q] = IF IsPrefix(p, q) THEN Absent ELSE fs[q]
                       /\ AnswersOk(srv'[c].sent)
                 /\ (pre[c] = "dir" /\ ~s.req.recursive /\ Below(p) # {}
                       /\ \E q \in Below(p) : fs[q].k # "absent") =>
                       /\ srv'[c].sent = <<NotEmptyError>>
                       /\ fs' = fs /\ idata' = idata /\ iperm' = iperm
                 /\ (pre[c] = "dir" /\ ~s.req.recursive
                       /\ \A q \in Below(p) : fs[q].k = "absent") =>
                       /\ fs' = [fs EXCEPT ![p] = Absent]
                       /\ AnswersOk(srv'[c].sent)]_vars

\* the directory holding file a is refused to one Remove without recursive
\* and taken, with the file, by another with it
C12_Witness ==
    \E c, d \in Conns :
       /\ IsRemove(c) /\ srv[c].pc = "Done" /\ ~srv[c].req.recursive
       /\ pre[c] = "dir" /\ srv[c].sent = <<NotEmptyError>>
       /\ IsRemove(d) /\ srv[d].pc = "Done" /\ srv[d].req.recursive
       /\ pre[d] = "dir" /\ ~touched[d] /\ AnswersOk(srv[d].sent)
       /\ \A q \in AllPaths : fs[q].k = "absent"
       /\ \A i \in Inodes : idata[i] = <<>>

IsList(c) == srv[c].req.t = "List" /\ srv[c].full # <<>>

\* C13 (as claimed): the connection of a List request with a resolvable
\* path carries, when it is closed, one List packet naming the requested
\* path and one Ok after it, and nothing else.
C13_ListResponseSequence ==
    \A c \in Conns :
       (IsList(c) /\ srv[c].pc = "Done")
       => /\ Len(srv[c].sent) = 2
          /\ srv[c].sent[1].t = "List"
          /\ srv[c].sent[1].path = srv[c].req.path
          /\ srv[c].sent[2] = Ok

HandlerStates(r) ==
    CASE r.t = "DownloadStart" -> {"dl_stat", "dl_open", "dl_read"}
      [] r.t = "UploadStart" -> {"ul_mkdir", "ul_exists", "ul_open", "ul_chmod", "ul_body"}
      [] r.t = "Remove" -> {"rm_exists", "rm_stat", "rm_file", "rm_dir_all", "rm_dir"}
      [] r.t = "List" -> {"ls_walk"}
      [] OTHER -> {}

\* how a task can leave the dispatcher for each kind of first packet
ExitsOf(r) ==
    CASE r.t \in {"DownloadStart", "UploadStart", "Remove", "List"} ->
            {"handler_ok", "handler_err"}
      [] r.t = "Ping" -> {"ping"}
      [] r = NoPacket -> {"read_failed"}
      [] OTHER -> {"unsupported"}

\* C15: a task reads one request and keeps it; it is in the dispatcher, in
\* the one handler of its request, or done; the socket is shut down exactly
\* when the task has left the dispatcher, whichever way it left it (a failed
\* request read, an unsupported request, a Ping, a handler that failed or
\* one that succeeded); and once the socket is shut down the task does
\* nothing more.
C15_OneOperationPerConnection ==
    /\ [][\A c \in Conns :
             /\ srv[c].pc # "AwaitRequest" => srv'[c].req = srv[c].req
             /\ srv[c].pc = "Done" => srv'[c] = srv[c]]_vars
    /\ [](\A c \in Conns :
             /\ srv[c].pc \in {"AwaitRequest", "Done"} \cup HandlerStates(srv[c].req)
             /\ srv[c].pc = "AwaitRequest" => srv[c].req = NoPacket /\ srv[c].sent = <<>>
             /\ srv[c].exit # "none" <=> srv[c].pc = "Done"
             /\ srv[c].exit # "none" => srv[c].exit \in ExitsOf(srv[c].req))

\* the socket shut down after a failed request read on one connection and
\* after a download that ran to its end on the other
C15_Witness ==
    \E c, d \in Conns :
       /\ srv[c].pc = "Done" /\ srv[c].exit = "read_failed"
       /\ srv[c].sent = << Error("Failed to read packet") >>
       /\ srv[d].pc = "Done" /\ srv[d].exit = "handler_ok"
       /\ DownloadStreamComplete(srv[d].sent)

\* the Error packets among q
Errors(q) == { i \in 1..Len(q) : q[i].t = "Error" }

\* C16 (as claimed): a connection whose handler ended with an error, and
\* whose peer had not closed it, carries exactly one Error packet.
C16_HandlerFailureSurfaced ==
    \A c \in Conns :
       (srv[c].exit = "handler_err" /\ cli[c].pc # "closed")
       => Cardinality(Errors(srv[c].sent)) = 1

UnexpectedError == Error("Unexpected packet during upload")

\* C17: the step in which the body loop of an upload reads a packet that is
\* neither UploadChunk nor UploadEnd sends Error("Unexpected packet during
\* upload"), ends the task and writes nothing: the tree, the bytes written
\* and the body read are as before; the packets of such a connection are the
\* ready Ok and that Error, and the task, being done, reads and writes no
\* more.
C17_UnexpectedPacketMidUpload ==
    /\ [][\A c \in Conns :
             /\ (srv[c].pc = "ul_body" /\ ~srv[c].deviated /\ srv'[c].deviated
                   /\ cli'[c].pc # "closed")
                => /\ srv'[c].sent = <<Ok, UnexpectedError>>
                   /\ srv'[c].pc = "Done"
                   /\ srv'[c].wrote = srv[c].wrote /\ srv'[c].body = srv[c].body
                   /\ fs' = fs
                   /\ \A q \in AllPaths :
                         fs[q].k = "file" => /\ idata'[fs[q].ino] = idata[fs[q].ino]
                                            /\ iperm'[fs[q].ino] = iperm[fs[q].ino]
             /\ UnexpectedError \in Range(srv[c].sent) => srv'[c] = srv[c]]_vars
    /\ [](\A c \in Conns :
             UnexpectedError \in Range(srv[c].sent)
             => /\ srv[c].sent = <<Ok, UnexpectedError>>
                /\ srv[c].pc = "Done" /\ srv[c].fh = 0 /\ ~srv[c].ended
                /\ srv[c].wrote = Len(srv[c].body))

\* a Ping read after one chunk of an upload of two bytes: the file keeps
\* the one byte
C17_Witness ==
    \E c \in Conns :
       /\ IsUpload(c) /\ srv[c].sent = <<Ok, UnexpectedError>>
       /\ srv[c].req.size = 2 /\ Len(srv[c].body) = 1 /\ ~touched[c]
       /\ fs[srv[c].full].k = "file"
       /\ idata[fs[srv[c].full].ino] = srv[c].body

\* C18: a connection whose first read failed carries
\* Error("Failed to read packet") alone; its task is done, ran no handler,
\* made no filesystem call, opened no file and wrote nothing; that step
\* leaves the tree and every file as they are; and no other connection
\* carries that Error.
C18_RequestReadFailure ==
    /\ [][\A c \in Conns :
             (srv[c].pc = "AwaitRequest" /\ srv'[c].exit = "read_failed")
             => fs' = fs /\ idata' = idata /\ iperm' = iperm]_vars
    /\ [](\A c \in Conns :
             /\ srv[c].exit = "read_failed"
                => /\ srv[c].sent = << Error("Failed to read packet") >>
                   /\ srv[c].pc = "Done" /\ srv[c].req = NoPacket
                   /\ srv[c].full = <<>> /\ ~srv[c].fsused
                   /\ srv[c].fh = 0 /\ srv[c].wrote = 0
             /\ Error("Failed to read packet") \in Range(srv[c].sent)
                => srv[c].exit = "read_failed")

\* a failed first read on the second connection while the first is inside
\* an upload
C18_Witness ==
    \E c, d \in Conns :
       /\ srv[c].exit = "read_failed" /\ cli[c].pc = "closed"
       /\ srv[c].sent = << Error("Failed to read packet") >>
       /\ srv[d].pc = "ul_body"

\* connection c is the next the listener accepts
NextToAccept(c) ==
    srv[c].pc = "AwaitRequest" /\ \A d \in Conns : d < c => srv[d].pc # "AwaitRequest"

\* C19: a step of the task or the peer of one connection changes nothing of
\* any other connection (its task's state, the packets it has sent, its
\* peer); what it can change besides its own connection is the filesystem;
\* and whatever the tasks accepted before have done, failed handlers
\* included, and whether or not they are done, the next connection is
\* accepted and its first read served.
C19_ConnectionIsolation ==
    /\ [][\A c, d \in Conns :
             (c # d /\ (srv'[c] # srv[c] \/ cli'[c] # cli[c]))
             => srv'[d] = srv[d] /\ cli'[d] = cli[d]]_vars
    /\ [](\A c \in Conns :
             NextToAccept(c) =>
                /\ ENABLED ReadRequestFails(c)
                /\ \A r \in Requests : ENABLED ReadRequest(c, r))

\* the second connection served a whole download, its client content, beside
\* the first, whose handler failed
C19_Witness ==
    /\ srv[1].exit = "handler_err"
    /\ srv[2].exit = "handler_ok" /\ DownloadStreamComplete(srv[2].sent)
    /\ cli[2].pc = "ok"

\* the client of connection c has returned
ClientReturned(c) == cli[c].pc \in {"ok", "failed"}

\* C20 (as claimed): a client operation on whose connection the server sent
\* Error(msg) returns failure with that message, and none returns success
\* after an Error.
C20_ClientErrorPropagation ==
    \A c \in Conns :
       \A i \in Errors(srv[c].sent) :
          ClientReturned(c) =>
             /\ cli[c].pc = "failed"
             /\ cli[c].err = srv[c].sent[i].msg

\* the peer of connection c has sent UploadStart
SentUploadStart(c) == srv[c].req.t = "UploadStart"

\* the bytes of the UploadChunk packets among the first n packets of q
RECURSIVE UploadChunkBytes(_, _)
UploadChunkBytes(q, n) ==
    IF n = 0 THEN 0
    ELSE UploadChunkBytes(q, n - 1)
            + (IF q[n].t = "UploadChunk" THEN Len(q[n].data) ELSE 0)

\* a whole upload body of `size` bytes: chunks, then one UploadEnd
UploadBodyComplete(q, size) ==
    /\ Len(q) >= 1
    /\ \A i \in 1..(Len(q) - 1) : q[i].t = "UploadChunk"
    /\ Last(q) = UploadEnd
    /\ UploadChunkBytes(q, Len(q)) = size

\* the beginning of an upload body of `size` bytes
UploadBodyPrefix(q, size) ==
    /\ \A i \in 1..Len(q) :
          \/ q[i].t = "UploadChunk" /\ q[i].data # <<>>
          \/ q[i] = UploadEnd /\ i = Len(q) /\ UploadChunkBytes(q, i) = size
    /\ UploadChunkBytes(q, Len(q)) <= size

\* the errors of a failed write of the upload body
UploadWriteErrors == {"Failed to send file chunk", "Failed to send upload end packet"}

C22_FramedDelivery ==
    /\ \A i \in 1..Len(fr_read) :
          fr_read[i].ok => /\ i <= Len(fr_written)
                           /\ fr_read[i].packet = fr_written[i]
    /\ \A packet \in FramePackets : deserialize(serialize(packet)) = Decoded(packet)
    /\ \A i \in 1..Len(fr_frames) :
          /\ Len(fr_frames[i].prefix) = 4
          /\ FromBE(fr_frames[i].prefix) = BLen(fr_frames[i].payload)

\* the local target of the download of connection c exists
LocalExists(c) == cli[c].lstate \in {"file", "hidden"}

\* the check of the download of connection c is made in this step
DownloadChecked(c) == cli[c].pc = "dl_check" /\ cli'[c] # cli[c]

\* the operation of connection c ends in this step with "File already
\* exists", the local file and the server left as they are
RefusedLocally(c) ==
    /\ cli'[c].pc = "failed" /\ cli'[c].err = "File already exists"
    /\ cli'[c].lfile = cli[c].lfile /\ cli'[c].lstate = cli[c].lstate
    /\ srv' = srv

C24_Ping ==
    /\ [][\A c \in Conns :
             (srv[c].pc = "AwaitRequest" /\ srv'[c].req = Ping)
             => /\ srv'[c].sent = <<Ok>>
                /\ srv'[c].pc = "Done"
                /\ fs' = fs /\ idata' = idata /\ iperm' = iperm]_vars
    /\ [](\A c \in Conns :
             srv[c].req = Ping
             => /\ srv[c].sent = <<Ok>>
                /\ srv[c].pc = "Done"
                /\ ~srv[c].fsused
                /\ srv[c].fh = 0
                /\ srv[c].wrote = 0)

\* a Ping answered while the upload of the other connection has its file
\* open, and the file a as the upload made it
C24_Witness ==
    \E c, d \in Conns :
       /\ srv[c].req = Ping /\ srv[c].sent = <<Ok>> /\ srv[c].pc = "Done"
       /\ IsUpload(d) /\ srv[d].pc = "ul_body" /\ srv[d].body = <<10 * d + 1>>
       /\ idata[fs[Root \o <<A>>].ino] = <<10 * d + 1>>

\* the upload of connection c, made without force, holds its target open
OpenedUnforced(c) ==
    IsUpload(c) /\ ~srv[c].req.force /\ srv[c].pc \in {"ul_chmod", "ul_body"}

\* C25 (as claimed): the open of an upload without force never finds, and
\* so never truncates, a file at its target (one that another connection has
\* created since the existence check); no chunk of such an upload is written
\* into a file another connection holds open for writing; and of two
\* uploads without force to the same path at most one holds the target open.
C25_NoOverwriteUnderRaces ==
    /\ [][\A c \in Conns :
             (IsUpload(c) /\ ~srv[c].req.force /\ srv[c].pc = "ul_open"
                /\ srv'[c].pc = "ul_chmod")
             => fs[srv[c].full].k # "file"]_vars
    /\ [](\A c, d \in Conns :
             (c # d /\ OpenedUnforced(c) /\ OpenedUnforced(d))
             => srv[c].full # srv[d].full)

\* C26 (as claimed): in every reachable state the storage root is a
\* directory: no request, a Remove of "." with recursive = true among them,
\* deletes it.
C26_StorageRootSurvives == fs[Root].k = "dir"

\* the task of connection c leaves the dispatcher in this step, as `how`
Leaves(c, how) == srv[c].exit = "none" /\ srv'[c].exit = how

\* C27: a connection carries at most one Error, and the Error is its last
\* packet: after an Error the server sends nothing more, an Ok least of
\* all.  The step in which a handler returns an error sends nothing or that
\* one Error, never an Ok; the step in which a handler returns without
\* error ends with the dispatcher's Ok, on a connection without an Error.
C27_ErrorIsFinal ==
    /\ [][\A c \in Conns :
             /\ Errors(srv[c].sent) # {} => srv'[c].sent = srv[c].sent
             /\ Leaves(c, "handler_err")
                => \/ srv'[c].sent = srv[c].sent
                   \/ /\ Len(srv'[c].sent) = Len(srv[c].sent) + 1
                      /\ SubSeq(srv'[c].sent, 1, Len(srv[c].sent)) = srv[c].sent
                      /\ Last(srv'[c].sent).t = "Error"
             /\ Leaves(c, "handler_ok")
                => /\ Last(srv'[c].sent) = Ok
                   /\ Errors(srv'[c].sent) = {}]_vars
    /\ [](\A c \in Conns :
             /\ Cardinality(Errors(srv[c].sent)) <= 1
             /\ \A i \in Errors(srv[c].sent) : i = Len(srv[c].sent)
             /\ Errors(srv[c].sent) # {} => srv[c].pc = "Done")

\* an upload ended by the size check after its ready Ok, and a removal ended
\* well on the other connection
C27_Witness ==
    \E c, d \in Conns :
       /\ srv[c].sent = << Ok, Error("File size mismatch") >>
       /\ srv[c].exit = "handler_err"
       /\ srv[d].exit = "handler_ok" /\ IsRemove(d) /\ srv[d].sent = <<Ok, Ok>>

\* the upload of connection c fails in this step on the size check or on
\* an unexpected packet in its body
UploadFailsInBody(c) ==
    /\ IsUpload(c)
    /\ srv[c].pc = "ul_body" /\ srv'[c].pc = "Done"
    /\ Last(srv'[c].sent) \in {Error("File size mismatch"), UnexpectedError}

\* C28: when an upload fails on the size check or on an unexpected packet
\* in its body, and no other connection has touched its target, the step
\* leaves the tree as it is and the target a file holding exactly the bytes
\* of the chunks read before, in order; the open of an upload leaves its
\* target empty before any body packet is read, so that a target that was a
\* file (force = true) holds, after the failure, the chunks and nothing of
\* its former bytes.
C28_FailedUploadLeavesPartialFile ==
    [][\A c \in Conns :
          /\ (UploadFailsInBody(c) /\ ~touched[c])
             => /\ fs' = fs
                /\ fs[srv[c].full].k = "file"
                /\ idata'[fs[srv[c].full].ino] = srv'[c].body
                /\ Len(srv'[c].body) = srv'[c].received_bytes
          /\ (IsUpload(c) /\ srv[c].pc = "ul_open" /\ srv'[c].pc = "ul_chmod")
             => /\ idata'[fs'[srv[c].full].ino] = <<>>
                /\ srv'[c].body = <<>> /\ srv'[c].received_bytes = 0]_vars

\* an upload of two announced bytes over the file a of three, with force,
\* ended by UploadEnd after one chunk: a holds that one byte
C28_Witness ==
    \E c \in Conns :
       /\ IsUpload(c) /\ srv[c].req.force /\ srv[c].req.size = 2
       /\ pre[c] = "file" /\ ~touched[c]
       /\ srv[c].sent = << Ok, Error("File size mismatch") >>
       /\ srv[c].body = <<10 * c + 1>>
       /\ fs[srv[c].full].k = "file"
       /\ idata[fs[srv[c].full].ino] = <<10 * c + 1>>

\* C29: every operation a client has begun returns in the end, with
\* success or with failure, and by then or later the task of its connection
\* has shut the socket down (or the operation has opened no connection at
\* all); so no operation leaves client and server waiting for each other.
C29_Termination ==
    \A c \in Conns :
       (cli[c].pc # "idle")
          ~> (ClientReturned(c) /\ (srv[c].pc = "Done" \/ srv[c] = InitSrv))

\* an upload refused after its ready Ok, whose client failed on a write to
\* the closed socket; and a download whose client returned after DownloadEnd
\* without reading the Ok that ends the stream
C29_Witness ==
    \E c, d \in Conns :
       /\ srv[c].sent = << Ok, Error("File already exists") >> /\ srv[c].pc = "Done"
       /\ cli[c].pc = "failed" /\ cli[c].err = "Failed to send file chunk"
       /\ cli[d].pc = "ok" /\ srv[d].pc = "Done"
       /\ DownloadStreamComplete(srv[d].sent)
       /\ cli[d].rd = Len(srv[d].sent) - 1

=============================================================================
